---------------------------- MODULE Spec2Model ----------------------------
(***************************************************************************)
(* A model of setup.py of optflow: the configuration script that locates   *)
(* the CUDA toolchain, the host compiler and the OpenCV libraries, builds  *)
(* the per-compiler argument lists, and patches the distutils compiler so  *)
(* that every ".cu" source is compiled by nvcc and every other source by   *)
(* the host compiler.                                                      *)
(*                                                                         *)
(* Strings that the script takes apart (paths, file names, command output) *)
(* are sequences of tokens: "/" is the path separator, "\n" the newline    *)
(* that ends a command's output, " " a blank, every other token a piece of *)
(* a name.  Strings that the script only formats (compiler flags) are TLA+ *)
(* strings.                                                                *)
(***************************************************************************)
EXTENDS Integers, Sequences, FiniteSets, TLC

\* ------------------------------------------------------------------ bounds
\* The longest source list, other than the repository's own, handed to the
\* patched compiler in one build session.
MaxSources == 3
\* The largest number of files present under the library directories.
MaxLibFiles == 3

\* ------------------------------------------------- str and os.path helpers
Sep == "/"
Whitespace == {"\n", " "}
\* The one-character tokens: the ones PCRE's "." consumes whole.
SingleChar == {"/", ".", "4", "5", "\n", " "}

RECURSIVE lstrip(_)
lstrip(s) ==
    IF s # <<>> /\ Head(s) \in Whitespace THEN lstrip(Tail(s)) ELSE s

RECURSIVE rstrip(_)
rstrip(s) ==
    IF s # <<>> /\ s[Len(s)] \in Whitespace
    THEN rstrip(SubSeq(s, 1, Len(s) - 1))
    ELSE s

\* str.strip()
strip(s) == rstrip(lstrip(s))

\* str(x) for the two kinds of value gpu_arch takes: an int or a str.
str(x) == IF x.int THEN ToString(x.v) ELSE x.v

\* s.split("/"): the pieces between separators, an empty piece included.
RECURSIVE split(_, _)
split(s, sep) ==
    IF \A i \in 1..Len(s) : s[i] # sep
    THEN <<s>>
    ELSE LET i == CHOOSE k \in 1..Len(s) :
                      s[k] = sep /\ \A m \in 1..(k - 1) : s[m] # sep
         IN  <<SubSeq(s, 1, i - 1)>> \o split(SubSeq(s, i + 1, Len(s)), sep)

\* distutils.util.split_quoted on a string without quotes or backslashes:
\* strip, then split on runs of whitespace.
RECURSIVE split_quoted(_)
split_quoted(s) ==
    LET t == strip(s)
    IN  IF t = <<>> THEN <<>>
        ELSE IF \A i \in 1..Len(t) : t[i] \notin Whitespace THEN <<t>>
        ELSE LET i == CHOOSE k \in 1..Len(t) :
                          t[k] \in Whitespace
                          /\ \A m \in 1..(k - 1) : t[m] \notin Whitespace
             IN  <<SubSeq(t, 1, i - 1)>> \o split_quoted(SubSeq(t, i + 1, Len(t)))

\* os.path.join of two parts.
join2(a, b) ==
    IF b # <<>> /\ Head(b) = Sep THEN b
    ELSE IF a = <<>> \/ a[Len(a)] = Sep THEN a \o b
    ELSE a \o <<Sep>> \o b

\* os.path.join(a, b, c)
join(a, b, c) == join2(join2(a, b), c)

\* The index of the last separator of p, 0 when it has none.
LastSep(p) ==
    IF \A i \in 1..Len(p) : p[i] # Sep THEN 0
    ELSE CHOOSE k \in 1..Len(p) :
             p[k] = Sep /\ \A m \in (k + 1)..Len(p) : p[m] # Sep

RECURSIVE rstripSep(_)
rstripSep(p) ==
    IF p # <<>> /\ p[Len(p)] = Sep
    THEN rstripSep(SubSeq(p, 1, Len(p) - 1))
    ELSE p

\* os.path.dirname
dirname(p) ==
    LET head == SubSeq(p, 1, LastSep(p))
    IN  IF head # <<>> /\ \E i \in 1..Len(head) : head[i] # Sep
        THEN rstripSep(head)
        ELSE head

\* os.path.basename
basename(p) == SubSeq(p, LastSep(p) + 1, Len(p))

\* The names of a path: its pieces between separators, the empty ones dropped.
Components(p) == SelectSeq(split(p, Sep), LAMBDA c : c # <<>>)

IsAbs(p) == p # <<>> /\ Head(p) = Sep

\* The ".." and "." resolution of os.path.normpath over a list of names.
RECURSIVE Resolve(_, _, _)
Resolve(comps, acc, abs) ==
    IF comps = <<>> THEN acc
    ELSE LET c == Head(comps)
         IN  IF c = <<".">> THEN Resolve(Tail(comps), acc, abs)
             ELSE IF c # <<"..">>
                     \/ (~abs /\ acc = <<>>)
                     \/ (acc # <<>> /\ acc[Len(acc)] = <<"..">>)
             THEN Resolve(Tail(comps), Append(acc, c), abs)
             ELSE IF acc # <<>>
             THEN Resolve(Tail(comps), SubSeq(acc, 1, Len(acc) - 1), abs)
             ELSE Resolve(Tail(comps), acc, abs)

RECURSIVE Slashed(_)
Slashed(comps) ==
    IF comps = <<>> THEN <<>>
    ELSE IF Len(comps) = 1 THEN Head(comps)
    ELSE Head(comps) \o <<Sep>> \o Slashed(Tail(comps))

\* os.path.normpath
normpath(p) ==
    LET abs == IsAbs(p)
        two == Len(p) >= 2 /\ p[1] = Sep /\ p[2] = Sep
                 /\ ~(Len(p) >= 3 /\ p[3] = Sep)
        lead == IF ~abs THEN <<>> ELSE IF two THEN <<Sep, Sep>> ELSE <<Sep>>
        body == Slashed(Resolve(Components(p), <<>>, abs))
    IN  IF lead \o body = <<>> THEN <<".">> ELSE lead \o body

\* os.getcwd(): the directory setup.py runs in.
Cwd == <<Sep, "src">>

\* os.path.abspath
abspath(p) == normpath(IF IsAbs(p) THEN p ELSE join2(Cwd, p))

\* os.path.splitext(p)[1]: the last token of the base name when it is an
\* extension (it starts with a dot and is not the whole base name).
Extensions == {".cu", ".cpp", ".pyx"}
splitext1(p) ==
    LET b == basename(p)
    IN  IF Len(b) >= 2 /\ b[Len(b)] \in Extensions THEN <<b[Len(b)]>> ELSE <<>>


\* ------------------------------------------------------ the machine's files
\* A file is its absolute path.  Library names are cut where the patterns of
\* the script cut them: "lib", the name, ".", "so", a version.
UsrInclude == <<Sep, "usr", Sep, "include">>
UsrLib == <<Sep, "usr", Sep, "lib">>
UsrBin == <<Sep, "usr", Sep, "bin">>
CudaRoot == <<Sep, "usr", Sep, "local", Sep, "cuda">>
OptCuda == <<Sep, "opt", Sep, "cuda">>
OptCv == <<Sep, "opt", Sep, "cv", Sep, "lib">>

CoreHpp == UsrInclude \o <<Sep, "opencv2", Sep, "core", Sep, "core.hpp">>
StrayHpp == UsrInclude \o <<Sep, "core.hpp">>
CudaH == CudaRoot \o <<Sep, "include", Sep, "cuda.h">>
Cudart == CudaRoot \o <<Sep, "lib64", Sep, "lib", "cudart", ".", "so">>
PathNvcc == CudaRoot \o <<Sep, "bin", Sep, "nvcc">>
HomeNvcc == OptCuda \o <<Sep, "bin", Sep, "nvcc">>
PathGcc == UsrBin \o <<Sep, "gcc">>
UsrCore == UsrLib \o <<Sep, "lib", "opencv", "_core", ".", "so">>
UsrCore4 == UsrLib \o <<Sep, "lib", "opencv", "_core", ".", "so", ".", "4">>
UsrCore45 ==
    UsrLib \o <<Sep, "lib", "opencv", "_core", ".", "so", ".", "4", ".", "5">>
UsrImgproc == UsrLib \o <<Sep, "lib", "opencv", "_imgproc", ".", "so">>
UsrCoreA == UsrLib \o <<Sep, "lib", "opencv", "_core", ".", "a">>
UsrZ == UsrLib \o <<Sep, "lib", "z", ".", "so">>
OptCore == OptCv \o <<Sep, "lib", "opencv", "_core", ".", "so">>
OptVideo4 == OptCv \o <<Sep, "lib", "opencv", "_video", ".", "so", ".", "4">>

\* The order in which find(1) enumerates the files that are present.
FsOrder ==
    <<StrayHpp, CoreHpp, CudaH, Cudart, PathNvcc, HomeNvcc, PathGcc,
      UsrCore45, UsrCore, UsrCore4, UsrImgproc, UsrCoreA, UsrZ,
      OptVideo4, OptCore>>

\* The directories of the command search path, in order.
PathDirs == <<CudaRoot \o <<Sep, "bin">>, UsrBin>>

\* os.path.exists
exists(files, p) == abspath(p) \in files

\* The lines `find root` prints for the files present under root: root as
\* it was given, then the path below it.  (The lines of directories are left
\* out: no directory of FsOrder is matched by a pattern of the script.)
FindLines(files, root) ==
    LET rc == Components(abspath(root))
        under(f) ==
            LET fc == Components(f)
            IN  f \in files /\ Len(rc) < Len(fc) /\ SubSeq(fc, 1, Len(rc)) = rc
        tail(f) == Slashed(SubSeq(Components(f), Len(rc) + 1, Len(Components(f))))
        line(f) ==
            IF root # <<>> /\ root[Len(root)] = Sep
            THEN root \o tail(f)
            ELSE root \o <<Sep>> \o tail(f)
        rec[i \in 0..Len(FsOrder)] ==
            IF i = 0 THEN <<>>
            ELSE IF under(FsOrder[i]) THEN Append(rec[i - 1], line(FsOrder[i]))
            ELSE rec[i - 1]
    IN  rec[Len(FsOrder)]

\* find -name: the lines whose base name is the one asked for.
FindName(lines, name) == SelectSeq(lines, LAMBDA l : basename(l) = name)

\* The positions at which pat occurs in line.
Occurrences(line, pat) ==
    {i \in 1..(Len(line) - Len(pat) + 1) : SubSeq(line, i, i + Len(pat) - 1) = pat}

Max(S) == CHOOSE x \in S : \A y \in S : y <= x
Min(S) == CHOOSE x \in S : \A y \in S : x <= y

\* grep -P -o -m 1 "^.*(?=pat)": of the first line that holds pat, what comes
\* before its last occurrence; no output (exit status 1) when no line does.
GrepPrefix(lines, pat) ==
    LET hit(l) == \E i \in Occurrences(l, pat) : i > 1
        hits == SelectSeq(lines, hit)
    IN  IF hits = <<>> THEN [status |-> 1, out |-> <<>>]
        ELSE [status |-> 0,
              out |-> SubSeq(hits[1], 1, Max(Occurrences(hits[1], pat)) - 1)
                          \o <<"\n">>]

\* grep -P -o "(?<=/lib)(opencv.*)(?=.so)" on one line: the match starts at
\* the first "opencv" that follows "/lib" and, ".*" being greedy, ends before
\* the last "<any character>so" after it.
LibStarts(l) ==
    {i \in 3..Len(l) : l[i - 2] = Sep /\ l[i - 1] = "lib" /\ l[i] = "opencv"}

LibEnds(l, i) ==
    {j \in i..(Len(l) - 2) : l[j + 1] \in SingleChar /\ l[j + 2] = "so"}

LibMatches(l) == \E i \in LibStarts(l) : LibEnds(l, i) # {}

LibMatch(l) ==
    LET i == Min({k \in LibStarts(l) : LibEnds(l, k) # {}})
    IN  SubSeq(l, i, Max(LibEnds(l, i)))

\* That grep stopped after the first matching line, as the one of find_path.
GrepLibsFirstOnly(lines) ==
    LET hits == SelectSeq(lines, LibMatches)
    IN  [status |-> IF hits = <<>> THEN 1 ELSE 0,
         out |-> IF hits = <<>> THEN <<>> ELSE <<LibMatch(hits[1])>>]

\* The output of that grep, one match a line, already split into lines.
GrepLibs(lines) ==
    LET hits == SelectSeq(lines, LibMatches)
    IN  [status |-> IF hits = <<>> THEN 1 ELSE 0,
         out |-> [k \in 1..Len(hits) |-> LibMatch(hits[k])]]

\* `which name`: the first file of that name on the search path, and a
\* newline; exit status 1 when there is none.
Which(files, name) ==
    LET dirs == SelectSeq(PathDirs, LAMBDA d : join2(d, name) \in files)
    IN  IF dirs = <<>> THEN [status |-> 1, out |-> <<>>]
        ELSE [status |-> 0, out |-> join2(dirs[1], name) \o <<"\n">>]

\* ------------------------------------------------------------ the errors
ToolNotFoundError == "Could not locate {} under /usr/"
NoLibrariesFoundError == "Could not locate opencv libs under {}"
InvalidToolchainPathError ==
    "The CUDA path could not be located. CUDAHOME not properly set."
ToolchainNotFoundError ==
    "The CUDA path could not be located. Try to set CUDAHOME."
HostCompilerNotFoundError == "The gcc path could not be located."
CompileError == "CompileError"
NoError == "none"

\* What a function of the script comes to: a value or a raised error, and
\* the commands and file tests it ran on the way.
Return(v, calls) == [ok |-> TRUE, val |-> v, err |-> NoError, calls |-> calls]
Raise(e, calls) == [ok |-> FALSE, val |-> <<>>, err |-> e, calls |-> calls]

\* ------------------------------------------------------------- PathProbe
UsrRoot == <<Sep, "usr", Sep>>

find_path(files, file_regexp) ==
    LET pieces == split(file_regexp, Sep)
        name == pieces[Len(pieces)]
        call == <<"find", UsrRoot, name>>
        found == FindName(FindLines(files, UsrRoot), name)
        result(grep_out) ==
            IF grep_out.status = 0
            THEN Return(strip(grep_out.out), <<call>>)
            ELSE Raise(ToolNotFoundError, <<call>>)
    IN  result(GrepPrefix(found, file_regexp))

\* ------------------------------------------------------ LibraryEnumerator
list_opencv_libs(files, lib_path) ==
    LET call == <<"find", lib_path>>
        result(grep_out) ==
            IF grep_out.status = 0
            THEN Return([k \in 1..Len(grep_out.out) |-> <<"-l">> \o grep_out.out[k]],
                        <<call>>)
            ELSE Raise(NoLibrariesFoundError, <<call>>)
    IN  result(GrepLibs(FindLines(files, lib_path)))

\* ------------------------------------------------------- ToolchainLocator
\* The branch of locate_cuda taken when CUDAHOME is set.
locate_cuda_home(home, files) ==
    LET found(nvcc) ==
            IF ~exists(files, nvcc)
            THEN Raise(InvalidToolchainPathError, <<<<"exists", nvcc>>>>)
            ELSE Return([home |-> home, nvcc |-> nvcc,
                         include |-> join2(home, <<"include">>),
                         lib |-> join2(home, <<"lib64">>)],
                        <<<<"exists", nvcc>>>>)
    IN  found(join(home, <<"bin">>, <<"nvcc">>))

\* A search that looks for the header and the library before it looks at the
\* exit status of `which nvcc`.
locate_cuda_search_probes_first(files) ==
    LET call == <<"which", <<"nvcc">>>>
        search(which, incs, libs) ==
            IF ~incs.ok
            THEN Raise(incs.err, <<call>> \o incs.calls)
            ELSE IF ~libs.ok
            THEN Raise(libs.err, <<call>> \o incs.calls \o libs.calls)
            ELSE IF which.status # 0
            THEN Raise(ToolchainNotFoundError, <<call>> \o incs.calls \o libs.calls)
            ELSE Return([home |-> abspath(dirname(which.out) \o <<Sep, "..">>),
                         nvcc |-> which.out,
                         include |-> abspath(incs.val),
                         lib |-> abspath(libs.val)],
                        <<call>> \o incs.calls \o libs.calls)
    IN  search(Which(files, <<"nvcc">>),
               find_path(files, <<"cuda.h">>),
               find_path(files, <<"lib", "cudart", ".", "so">>))

\* The branch of locate_cuda taken otherwise: the search for nvcc.
locate_cuda_search(files) ==
    LET call == <<"which", <<"nvcc">>>>
        search(which, incs, libs) ==
            IF which.status # 0
            THEN Raise(ToolchainNotFoundError, <<call>>)
            ELSE IF ~incs.ok
            THEN Raise(incs.err, <<call>> \o incs.calls)
            ELSE IF ~libs.ok
            THEN Raise(libs.err, <<call>> \o incs.calls \o libs.calls)
            ELSE Return([home |-> abspath(dirname(which.out) \o <<Sep, "..">>),
                         nvcc |-> which.out,
                         include |-> abspath(incs.val),
                         lib |-> abspath(libs.val)],
                        <<call>> \o incs.calls \o libs.calls)
    IN  search(Which(files, <<"nvcc">>),
               find_path(files, <<"cuda.h">>),
               find_path(files, <<"lib", "cudart", ".", "so">>))

\* A locate_cuda that searches for nvcc when CUDAHOME holds none.
locate_cuda_falls_back(environ, files) ==
    IF "CUDAHOME" \in DOMAIN environ
          /\ exists(files, join(environ["CUDAHOME"], <<"bin">>, <<"nvcc">>))
    THEN locate_cuda_home(environ["CUDAHOME"], files)
    ELSE locate_cuda_search(files)

locate_cuda(environ, files) ==
    IF "CUDAHOME" \in DOMAIN environ
    THEN locate_cuda_home(environ["CUDAHOME"], files)
    ELSE locate_cuda_search(files)

\* --------------------------------------------------- HostCompilerSelector
\* A check_gcc that settles for plain "gcc" when the search finds none.
check_gcc_defaults(environ, files) ==
    IF "CC" \in DOMAIN environ
    THEN Return(environ["CC"], <<>>)
    ELSE LET call == <<"which", <<"gcc">>>>
             found(which) ==
                 IF which.status = 0
                 THEN Return(strip(which.out), <<call>>)
                 ELSE Return(<<"gcc">>, <<call>>)
         IN  found(Which(files, <<"gcc">>))

\* A check_gcc that rejects a CC naming no file.
check_gcc_validates(environ, files) ==
    IF "CC" \in DOMAIN environ /\ exists(files, environ["CC"])
    THEN Return(environ["CC"], <<>>)
    ELSE LET call == <<"which", <<"gcc">>>>
             found(which) ==
                 IF which.status = 0 /\ "CC" \notin DOMAIN environ
                 THEN Return(strip(which.out), <<call>>)
                 ELSE Raise(HostCompilerNotFoundError, <<call>>)
         IN  found(Which(files, <<"gcc">>))

check_gcc(environ, files) ==
    IF "CC" \in DOMAIN environ
    THEN Return(environ["CC"], <<>>)
    ELSE LET call == <<"which", <<"gcc">>>>
             found(which) ==
                 IF which.status = 0
                 THEN Return(strip(which.out), <<call>>)
                 ELSE Raise(HostCompilerNotFoundError, <<call>>)
         IN  found(Which(files, <<"gcc">>))

\* ------------------------------------------------------- BuildDescriptor
DefaultArch == 52

\* gpu_arch: the GPU_ARCH of the environment, a str, else the int 52.
select_gpu_arch(environ) ==
    IF "GPU_ARCH" \in DOMAIN environ
    THEN [int |-> FALSE, v |-> environ["GPU_ARCH"]]
    ELSE [int |-> TRUE, v |-> DefaultArch]

\* "-arch=sm_{}".format(gpu_arch)
arch_flag(arch) == "-arch=sm_" \o str(arch)

\* A gencode flag whose compute tag is left at the default.
gencode_flag_default_compute(arch) ==
    "-gencode=arch=compute_" \o ToString(DefaultArch) \o ",code=sm_" \o str(arch)

\* "-gencode=arch=compute_{},code=sm_{}".format(gpu_arch, gpu_arch)
gencode_flag(arch) ==
    "-gencode=arch=compute_" \o str(arch) \o ",code=sm_" \o str(arch)

\* An argument list that names the system gcc, not the selected compiler.
nvcc_args_system_gcc(arch, gcc) ==
    <<arch_flag(arch), gencode_flag(arch), "--ptxas-options=-v", "-c",
      "--compiler-options", "'-fPIC'", "--compiler-bindir", PathGcc>>

\* extra_compile_args["nvcc"]
nvcc_args(arch, gcc) ==
    <<arch_flag(arch), gencode_flag(arch), "--ptxas-options=-v", "-c",
      "--compiler-options", "'-fPIC'", "--compiler-bindir", gcc>>

\* extra_compile_args
compile_args(arch, gcc) == [gcc |-> <<"-g">>, nvcc |-> nvcc_args(arch, gcc)]

\* extra_link_args
link_args(libs_path, libs, cuda_lib) ==
    <<<<"-L">>, libs_path>> \o libs \o <<<<"-L">>, cuda_lib, <<"-lcudart">>, <<"-g">>>>

\* numpy.get_include()
NumpyInclude == <<Sep, "numpy", Sep, "include">>

\* include_dirs
include_dirs(cuda_inc, cv_incs) ==
    <<NumpyInclude, cuda_inc, <<"EPPM">>, <<"EPPM", Sep, "basic">>>> \o cv_incs

\* eppm_src of the repository.
EppmSrc ==
    << <<"EPPM", Sep, "bao_pmflow_census_kernel", ".cu">>,
       <<"EPPM", Sep, "bao_pmflow_refine_kernel", ".cu">>,
       <<"EPPM", Sep, "bao_flow_patchmatch_multiscale_cuda", ".cpp">>,
       <<"EPPM", Sep, "bao_flow_patchmatch_multiscale_kernel", ".cu">>,
       <<"EPPM", Sep, "bao_pmflow_kernel", ".cu">>,
       <<"EPPM", Sep, "basic", Sep, "bao_basic_cuda", ".cpp">> >>

\* cythonize(extensions): a ".pyx" source becomes the C++ file generated
\* from it (language="c++"), the other sources stay.
cythonize(srcs) ==
    [k \in 1..Len(srcs) |->
        IF splitext1(srcs[k]) = <<".pyx">>
        THEN SubSeq(srcs[k], 1, Len(srcs[k]) - 1) \o <<".cpp">>
        ELSE srcs[k]]

\* ----------------------------------------------------- CompilerDispatcher
\* CCompiler.set_executable("compiler_so", value) for a str value.
set_executable(value) == split_quoted(value)

\* A dispatch that picks the argument list and leaves compiler_so alone.
dispatch_args_only(src, cur_so, nvcc, extra_postargs) ==
    IF splitext1(src) = <<".cu">>
    THEN [so |-> cur_so, postargs |-> extra_postargs.nvcc]
    ELSE [so |-> cur_so, postargs |-> extra_postargs.gcc]

\* The compiler_so and the postargs _compile hands to the original _compile.
dispatch(src, cur_so, nvcc, extra_postargs) ==
    IF splitext1(src) = <<".cu">>
    THEN [so |-> set_executable(nvcc), postargs |-> extra_postargs.nvcc]
    ELSE [so |-> cur_so, postargs |-> extra_postargs.gcc]

\* A _compile that never puts the saved compiler_so back.
leave_compile_no_reset(ok, so, default_so) == so

\* compiler_so when _compile is left: the statement after the call of the
\* original _compile runs only when that call returns.
leave_compile(ok, so, default_so) == IF ok THEN default_so ELSE so

\* ---------------------------------------------------------------- state
VARIABLES
    pc,                   \* the statement of setup.py that runs next
    environ,              \* os.environ
    files,                \* the files present on the machine
    eppm_src,             \* the native sources of the extension
    bound,                \* the module-level names bound so far
    calls,                \* the commands and file tests run so far
    err,                  \* the error that ended the script
    cuda, cuda_gcc,
    opencv_incs, opencv_libs_path, opencv_libs,
    gpu_arch,
    extension,            \* the Extension: sources, include_dirs, arguments
    compiler_so,          \* the compiler object's compiler_so
    src_extensions,       \* the compiler object's src_extensions
    default_compiler_so,  \* the reference customize_compiler_for_nvcc saves
    patched,              \* whether _compile has been replaced
    idx,                  \* the source compiled next
    compiled              \* the calls of the original _compile, in order

vars ==
    <<pc, environ, files, eppm_src, bound, calls, err, cuda, cuda_gcc,
      opencv_incs, opencv_libs_path, opencv_libs, gpu_arch, extension,
      compiler_so, src_extensions, default_compiler_so, patched, idx, compiled>>

config == <<cuda, cuda_gcc, opencv_incs, opencv_libs_path, opencv_libs, gpu_arch>>
compiler == <<compiler_so, src_extensions, default_compiler_so, patched>>
inputs == <<environ, files, eppm_src>>

\* --------------------------------------------------------------- inputs
\* A variable of the environment: not set, or set to a value of S.
Unset == [set |-> FALSE, v |-> <<>>]
Opt(S) == {Unset} \cup {[set |-> TRUE, v |-> x] : x \in S}
OptArch(S) == {[set |-> FALSE, v |-> ""]} \cup {[set |-> TRUE, v |-> x] : x \in S}

MkEnviron(home, cc, libs, arch) ==
    LET all == [CUDAHOME |-> home, CC |-> cc, OPENCV_LIBS |-> libs, GPU_ARCH |-> arch]
    IN  [k \in {n \in DOMAIN all : all[n].set} |-> all[k].v]

\* A CC that names no file of the machine.
CustomCC == <<Sep, "opt", Sep, "gcc-9">>

AllFiles == {FsOrder[i] : i \in 1..Len(FsOrder)}
LibFiles ==
    {UsrCore, UsrCore4, UsrCore45, UsrImgproc, UsrCoreA, UsrZ, OptCore, OptVideo4}
KeyFiles ==
    {CoreHpp, CudaH, Cudart, PathNvcc, HomeNvcc, PathGcc, UsrCore, OptCore}

\* The compiler_so distutils configures for the platform.
DefaultCompilerSos ==
    {<< <<"gcc">>, <<"-pthread">>, <<"-fPIC">> >>, << <<"c++">> >>}

SourceFiles == {<<"a", ".cpp">>, <<"b", ".cu">>, <<"c", ".cu", ".cpp">>}

SourceLists == UNION {[1..n -> SourceFiles] : n \in 0..MaxSources}

\* The unassigned state of the script's names.
NoConfig ==
    /\ cuda = [home |-> <<>>, nvcc |-> <<>>, include |-> <<>>, lib |-> <<>>]
    /\ cuda_gcc = <<>>
    /\ opencv_incs = <<>>
    /\ opencv_libs_path = <<>>
    /\ opencv_libs = <<>>
    /\ gpu_arch = [int |-> TRUE, v |-> 0]
    /\ extension = [sources |-> <<>>, include_dirs |-> <<>>,
                    extra_link_args |-> <<>>,
                    extra_compile_args |-> [gcc |-> <<>>, nvcc |-> <<>>]]

Start ==
    /\ pc = "locate_cuda"
    /\ bound = {}
    /\ calls = <<>>
    /\ err = NoError
    /\ NoConfig
    /\ src_extensions = <<".c", ".C", ".cc", ".cxx", ".cpp", ".m">>
    /\ default_compiler_so = <<>>
    /\ patched = FALSE
    /\ idx = 1
    /\ compiled = <<>>

\* Every combination of the overrides and of the files the locators look
\* for, building the repository's sources.
InitConfig ==
    /\ \E home \in Opt({OptCuda, OptCuda \o <<Sep>>}), cc \in Opt({CustomCC}),
          libs \in Opt({OptCv}), arch \in OptArch({"75"}) :
          environ = MkEnviron(home, cc, libs, arch)
    /\ \E S \in SUBSET KeyFiles : files = (AllFiles \ KeyFiles) \cup S
    /\ eppm_src = EppmSrc
    /\ compiler_so = << <<"gcc">>, <<"-pthread">>, <<"-fPIC">> >>

\* Every small population of the library directories.
InitLibs ==
    /\ \E libs \in Opt({OptCv}) :
          environ = MkEnviron(Unset, Unset, libs, Unset)
    /\ \E L \in SUBSET LibFiles :
          /\ Cardinality(L) <= MaxLibFiles
          /\ files = (AllFiles \ LibFiles) \cup L
    /\ eppm_src = << <<"b", ".cu">> >>
    /\ compiler_so = << <<"gcc">>, <<"-pthread">>, <<"-fPIC">> >>

\* Every short source list, on a machine that has every file.
InitBuild ==
    /\ \E home \in Opt({OptCuda}), cc \in Opt({CustomCC}), arch \in OptArch({"75", "61"}) :
          environ = MkEnviron(home, cc, Unset, arch)
    /\ files = AllFiles
    /\ eppm_src \in SourceLists
    /\ compiler_so \in DefaultCompilerSos

Init == Start /\ (InitConfig \/ InitLibs \/ InitBuild)

\* -------------------------------------------------------------- actions
Fail(e) ==
    /\ pc' = "failed"
    /\ err' = e

\* A module-level statement name = f(): r is what f comes to.  The name is
\* bound and the next statement runs, or the error f raises ends the script.
Statement(r, name, next) ==
    /\ calls' = calls \o r.calls
    /\ IF r.ok
       THEN /\ bound' = bound \cup {name}
            /\ pc' = next
            /\ err' = err
       ELSE /\ Fail(r.err)
            /\ bound' = bound

\* cuda = locate_cuda()
LocateCuda ==
    /\ pc = "locate_cuda"
    /\ LET run(r) ==
               /\ Statement(r, "cuda", "check_gcc")
               /\ cuda' = IF r.ok THEN r.val ELSE cuda
       IN  run(locate_cuda(environ, files))
    /\ UNCHANGED <<inputs, cuda_gcc, opencv_incs, opencv_libs_path, opencv_libs,
                   gpu_arch, extension, compiler, idx, compiled>>

\* cuda_gcc = check_gcc()
CheckGcc ==
    /\ pc = "check_gcc"
    /\ LET run(r) ==
               /\ Statement(r, "cuda_gcc", "opencv_incs")
               /\ cuda_gcc' = IF r.ok THEN r.val ELSE cuda_gcc
       IN  run(check_gcc(environ, files))
    /\ UNCHANGED <<inputs, cuda, opencv_incs, opencv_libs_path, opencv_libs,
                   gpu_arch, extension, compiler, idx, compiled>>

\* opencv_incs = [find_path("opencv2/core/core.hpp")]
OpencvIncs ==
    /\ pc = "opencv_incs"
    /\ LET run(r) ==
               /\ Statement(r, "opencv_incs", "opencv_libs_path")
               /\ opencv_incs' = IF r.ok THEN <<r.val>> ELSE opencv_incs
       IN  run(find_path(files, <<"opencv2", Sep, "core", Sep, "core.hpp">>))
    /\ UNCHANGED <<inputs, cuda, cuda_gcc, opencv_libs_path, opencv_libs,
                   gpu_arch, extension, compiler, idx, compiled>>

\* opencv_libs_path: OPENCV_LIBS, else find_path("libopencv_core.so")
OpencvLibsPath ==
    /\ pc = "opencv_libs_path"
    /\ LET run(r) ==
               /\ Statement(r, "opencv_libs_path", "opencv_libs")
               /\ opencv_libs_path' = IF r.ok THEN r.val ELSE opencv_libs_path
       IN  run(IF "OPENCV_LIBS" \in DOMAIN environ
                THEN Return(environ["OPENCV_LIBS"], <<>>)
                ELSE find_path(files, <<"lib", "opencv", "_core", ".", "so">>))
    /\ UNCHANGED <<inputs, cuda, cuda_gcc, opencv_incs, opencv_libs,
                   gpu_arch, extension, compiler, idx, compiled>>

\* opencv_libs = list_opencv_libs(opencv_libs_path)
OpencvLibs ==
    /\ pc = "opencv_libs"
    /\ LET run(r) ==
               /\ Statement(r, "opencv_libs", "gpu_arch")
               /\ opencv_libs' = IF r.ok THEN r.val ELSE opencv_libs
       IN  run(list_opencv_libs(files, opencv_libs_path))
    /\ UNCHANGED <<inputs, cuda, cuda_gcc, opencv_incs, opencv_libs_path,
                   gpu_arch, extension, compiler, idx, compiled>>

\* gpu_arch = os.environ["GPU_ARCH"], else 52
GpuArch ==
    /\ pc = "gpu_arch"
    /\ gpu_arch' = select_gpu_arch(environ)
    /\ bound' = bound \cup {"gpu_arch"}
    /\ pc' = "extensions"
    /\ UNCHANGED <<inputs, calls, err, cuda, cuda_gcc, opencv_incs,
                   opencv_libs_path, opencv_libs, extension, compiler, idx, compiled>>

\* extensions = [Extension("optflow", ...)]
DeclareExtension ==
    /\ pc = "extensions"
    /\ extension' =
           [sources |-> <<<<"optflow", ".pyx">>>> \o eppm_src,
            include_dirs |-> include_dirs(cuda.include, opencv_incs),
            extra_link_args |-> link_args(opencv_libs_path, opencv_libs, cuda.lib),
            extra_compile_args |-> compile_args(gpu_arch, cuda_gcc)]
    /\ bound' = bound \cup {"extensions"}
    /\ pc' = "setup"
    /\ UNCHANGED <<inputs, calls, err, config, compiler, idx, compiled>>

\* setup(ext_modules=cythonize(extensions), cmdclass=...), up to the first
\* compile: custom_build_ext.build_extensions patches the compiler object.
Setup ==
    /\ pc = "setup"
    /\ extension' = [extension EXCEPT !.sources = cythonize(@)]
    /\ src_extensions' = Append(src_extensions, ".cu")
    /\ default_compiler_so' = compiler_so
    /\ patched' = TRUE
    /\ pc' = "build"
    /\ UNCHANGED <<inputs, bound, calls, err, config, compiler_so, idx, compiled>>

\* One call of the patched _compile, for the next source of the extension.
\* The original _compile runs the command it is given; the command succeeds,
\* or fails and CompileError is raised, which ends the build.
Compile ==
    /\ pc = "build"
    /\ patched
    /\ idx <= Len(extension.sources)
    /\ \E ok \in BOOLEAN :
          LET src == extension.sources[idx]
              run(d, after) ==
                  /\ compiler_so' = after
                  /\ compiled' = Append(compiled,
                         [src |-> src, so_before |-> compiler_so, so |-> d.so,
                          postargs |-> d.postargs, ok |-> ok, so_after |-> after])
          IN  /\ run(dispatch(src, compiler_so, cuda.nvcc, extension.extra_compile_args),
                     leave_compile(ok,
                         dispatch(src, compiler_so, cuda.nvcc,
                                  extension.extra_compile_args).so,
                         default_compiler_so))
              /\ IF ok
                 THEN /\ idx' = idx + 1
                      /\ UNCHANGED <<pc, err>>
                 ELSE /\ Fail(CompileError)
                      /\ idx' = idx
    /\ UNCHANGED <<inputs, bound, calls, config, extension, src_extensions,
                   default_compiler_so, patched>>

\* Every source is compiled: the extension is linked and the script ends.
Finish ==
    /\ pc = "build"
    /\ idx > Len(extension.sources)
    /\ pc' = "done"
    /\ UNCHANGED <<inputs, bound, calls, err, config, extension, compiler, idx, compiled>>

Next ==
    \/ LocateCuda
    \/ CheckGcc
    \/ OpencvIncs
    \/ OpencvLibsPath
    \/ OpencvLibs
    \/ GpuArch
    \/ DeclareExtension
    \/ Setup
    \/ Compile
    \/ Finish

Spec == Init /\ [][Next]_vars

\* ------------------------------------------------------------ properties
\* What the properties say of the inputs, read off the machine directly.
IsSet(name) == name \in DOMAIN environ
IsCu(src) == src[Len(src)] = ".cu"
ConfigErrors ==
    {ToolNotFoundError, NoLibrariesFoundError, InvalidToolchainPathError,
     ToolchainNotFoundError, HostCompilerNotFoundError}

\* The GPU compiler of the machine: the one under CUDAHOME, else the one on
\* the command search path.
GpuCompiler == IF IsSet("CUDAHOME") THEN HomeNvcc ELSE PathNvcc

\* The host compiler selected for the build.
SelectedHostCompiler == IF IsSet("CC") THEN environ["CC"] ELSE PathGcc

Ran(call) == \E k \in 1..Len(calls) : calls[k] = call
RanWhich(name) == \E k \in 1..Len(calls) : calls[k][1] = "which" /\ calls[k][2] = name
RanFind(name) ==
    \E k \in 1..Len(calls) :
        calls[k][1] = "find" /\ Len(calls[k]) = 3 /\ calls[k][3] = name

\* C1: in a build session whose compiles all succeed, a ".cu" file is compiled
\* by the GPU compiler with the "nvcc" argument list, any other file with the
\* "gcc" argument list, and when the last file is done compiler_so is what it
\* was before the first one.
C1_DispatchByExtension ==
    /\ \A i \in 1..Len(compiled) :
          (\A k \in 1..i : compiled[k].ok) =>
              IF IsCu(compiled[i].src)
              THEN /\ compiled[i].so = <<GpuCompiler>>
                   /\ compiled[i].postargs = extension.extra_compile_args.nvcc
                   /\ Len(compiled[i].postargs) > 1
              ELSE compiled[i].postargs = <<"-g">>
    /\ (pc = "done" /\ compiled # <<>>) => compiler_so = compiled[1].so_before

\* A finished session that compiled a host file, a ".cu" file and a host file.
C1_Witness ==
    /\ pc = "done"
    /\ Len(compiled) >= 3
    /\ ~IsCu(compiled[1].src)
    /\ IsCu(compiled[2].src)
    /\ ~IsCu(compiled[3].src)

\* C2: when the compile of a ".cu" file fails, compiler_so is the saved
\* default again, and not the GPU compiler, once the error has left the
\* dispatcher.
C2_RestoredOnFailure ==
    (pc = "failed" /\ err = CompileError /\ IsCu(compiled[Len(compiled)].src)) =>
        /\ compiler_so = default_compiler_so
        /\ compiler_so # <<GpuCompiler>>

\* C3: a host file is always compiled with the compiler_so that was configured
\* before the session, whatever was compiled before it, and compiler_so is the
\* same before and after the dispatcher handles it.
C3_HostUsesDefault ==
    \A i \in 1..Len(compiled) :
        ~IsCu(compiled[i].src) =>
            /\ compiled[i].so \in DefaultCompilerSos
            /\ compiled[i].so = default_compiler_so
            /\ compiled[i].so_before = compiled[i].so
            /\ compiled[i].so_after = compiled[i].so

\* A host file compiled after a ".cu" file of the same session.
C3_Witness ==
    \E i, j \in 1..Len(compiled) :
        i < j /\ IsCu(compiled[i].src) /\ ~IsCu(compiled[j].src)

\* Whether each locator can succeed on this machine.
ToolchainPresent ==
    IF IsSet("CUDAHOME")
    THEN HomeNvcc \in files
    ELSE PathNvcc \in files /\ CudaH \in files /\ Cudart \in files
HostCompilerPresent == IsSet("CC") \/ PathGcc \in files
VisionLibraryPresent ==
    /\ CoreHpp \in files
    /\ IF IsSet("OPENCV_LIBS")
       THEN OptCore \in files \/ OptVideo4 \in files
       ELSE UsrCore \in files

\* C4: the compiler is patched and sources are compiled only after the
\* toolchain, the host compiler and the vision library have all been found;
\* when one of them is not, the script ends in that error with nothing
\* compiled.
C4_ConfigBeforeCompile ==
    /\ (patched \/ compiled # <<>> \/ pc \in {"build", "done"}) =>
          /\ ToolchainPresent /\ HostCompilerPresent /\ VisionLibraryPresent
          /\ cuda.nvcc # <<>> /\ opencv_incs # <<>> /\ opencv_libs # <<>>
    /\ ~(ToolchainPresent /\ HostCompilerPresent /\ VisionLibraryPresent) =>
          /\ ~patched /\ compiled = <<>>
          /\ pc = "failed" => err \in ConfigErrors
          /\ pc \in {"locate_cuda", "check_gcc", "opencv_incs", "opencv_libs_path",
                     "opencv_libs", "failed"}

\* The script ended because the last locator failed after the others had
\* succeeded.
C4_Witness ==
    /\ pc = "failed"
    /\ err = NoLibrariesFoundError
    /\ {"cuda", "cuda_gcc", "opencv_incs", "opencv_libs_path"} \subseteq bound
    /\ compiled = <<>>

\* C5: with CUDAHOME set, neither `which nvcc` nor a search under /usr/ for the
\* toolchain is run; the toolchain is CUDAHOME with bin/nvcc, include and lib64
\* under it when that nvcc exists, and InvalidToolchainPathError otherwise.
C5_OverrideSkipsDiscovery ==
    (IsSet("CUDAHOME") /\ pc # "locate_cuda") =>
        /\ ~RanWhich(<<"nvcc">>)
        /\ ~RanFind(<<"cuda.h">>)
        /\ ~RanFind(<<"lib", "cudart", ".", "so">>)
        /\ IF HomeNvcc \in files
           THEN /\ "cuda" \in bound
                /\ cuda.home = environ["CUDAHOME"]
                /\ IsAbs(cuda.nvcc) /\ IsAbs(cuda.include) /\ IsAbs(cuda.lib)
                /\ Components(cuda.nvcc)
                       = Components(environ["CUDAHOME"]) \o <<<<"bin">>, <<"nvcc">>>>
                /\ Components(cuda.include)
                       = Components(environ["CUDAHOME"]) \o <<<<"include">>>>
                /\ Components(cuda.lib)
                       = Components(environ["CUDAHOME"]) \o <<<<"lib64">>>>
           ELSE /\ pc = "failed"
                /\ err = InvalidToolchainPathError
                /\ bound = {}

\* CUDAHOME names a root without nvcc while an nvcc is on the search path.
C5_Witness ==
    /\ IsSet("CUDAHOME")
    /\ HomeNvcc \notin files
    /\ PathNvcc \in files
    /\ pc = "failed"
    /\ err = InvalidToolchainPathError

\* C6: without CUDAHOME and without nvcc on the search path, ToolchainLocator
\* fails with ToolchainNotFoundError, binds no toolchain and runs no search
\* under /usr/.
C6_NoToolchainFailsFast ==
    (~IsSet("CUDAHOME") /\ PathNvcc \notin files /\ pc # "locate_cuda") =>
        /\ pc = "failed"
        /\ err = ToolchainNotFoundError
        /\ bound = {}
        /\ cuda.nvcc = <<>>
        /\ calls = << <<"which", <<"nvcc">>>> >>

\* The locator failed although the header and the library are under /usr/.
C6_Witness ==
    /\ ~IsSet("CUDAHOME")
    /\ PathNvcc \notin files
    /\ CudaH \in files /\ Cudart \in files
    /\ pc = "failed"

\* The OpenCV shared libraries in the library directory, and their names:
\* what is between "lib" and ".so" in the file name.
SharedLibs ==
    {f \in files :
        /\ dirname(f) = abspath(opencv_libs_path)
        /\ basename(f)[1] = "lib" /\ basename(f)[2] = "opencv"
        /\ \E k \in 3..(Len(basename(f)) - 1) :
               basename(f)[k] = "." /\ basename(f)[k + 1] = "so"}
LogicalName(f) ==
    LET b == basename(f)
        k == Min({n \in 3..(Len(b) - 1) : b[n] = "." /\ b[n + 1] = "so"})
    IN  SubSeq(b, 2, k - 1)
LogicalNames == {LogicalName(f) : f \in SharedLibs}
Flags == {opencv_libs[k] : k \in 1..Len(opencv_libs)}

\* C7: LibraryEnumerator returns exactly one flag for each distinct logical
\* library name of the directory, however many files share the name.
C7_OneFlagPerName ==
    "opencv_libs" \in bound =>
        /\ Len(opencv_libs) = Cardinality(LogicalNames)
        /\ Flags = {<<"-l">> \o n : n \in LogicalNames}

\* C7 as amended: one flag for each library file, so that files sharing a
\* logical name repeat its flag; the flags are the "-l<name>" of the distinct
\* names.
C7_OneFlagPerFile ==
    "opencv_libs" \in bound =>
        /\ Len(opencv_libs) = Cardinality(SharedLibs)
        /\ Flags = {<<"-l">> \o n : n \in LogicalNames}
        /\ \A n \in LogicalNames :
              Cardinality({k \in 1..Len(opencv_libs) : opencv_libs[k] = <<"-l">> \o n})
                  = Cardinality({f \in SharedLibs : LogicalName(f) = n})

\* Two files of one logical name were enumerated beside a library of another.
C7_Witness ==
    /\ "opencv_libs" \in bound
    /\ Cardinality(SharedLibs) = 3
    /\ Cardinality(LogicalNames) = 2

\* The architecture tag of the build, as text.
ArchTag == IF IsSet("GPU_ARCH") THEN environ["GPU_ARCH"] ELSE "52"

\* C8: the GPU argument list holds "-arch=sm_T" and
\* "-gencode=arch=compute_T,code=sm_T" for the GPU_ARCH T, 52 when unset.
C8_ArchFlagsAgree ==
    "extensions" \in bound =>
        /\ extension.extra_compile_args.nvcc[1] = "-arch=sm_" \o ArchTag
        /\ extension.extra_compile_args.nvcc[2]
               = "-gencode=arch=compute_" \o ArchTag \o ",code=sm_" \o ArchTag

\* The argument lists were built with GPU_ARCH=75.
C8_Witness ==
    /\ "extensions" \in bound
    /\ IsSet("GPU_ARCH")
    /\ environ["GPU_ARCH"] = "75"

\* C9: HostCompilerSelector returns CC as it is when CC is set, running no
\* file test and no search; without CC it returns the gcc of the search path,
\* and fails with HostCompilerNotFoundError only when there is none.
C9_HostCompilerPolicy ==
    /\ ("cuda" \in bound /\ pc # "check_gcc") =>
          IF IsSet("CC")
          THEN /\ "cuda_gcc" \in bound
               /\ cuda_gcc = environ["CC"]
               /\ ~RanWhich(<<"gcc">>)
               /\ ~Ran(<<"exists", environ["CC"]>>)
          ELSE /\ RanWhich(<<"gcc">>)
               /\ IF PathGcc \in files
                  THEN "cuda_gcc" \in bound /\ cuda_gcc = PathGcc
                  ELSE pc = "failed" /\ err = HostCompilerNotFoundError
    /\ err = HostCompilerNotFoundError => (~IsSet("CC") /\ PathGcc \notin files)

\* CC names no file, a gcc is on the search path, and CC was returned.
C9_Witness ==
    /\ IsSet("CC")
    /\ environ["CC"] \notin files
    /\ PathGcc \in files
    /\ "cuda_gcc" \in bound

\* C10: every ".cu" file is compiled with "--compiler-bindir" followed by the
\* host compiler selected for the build, and every host file with "-g" alone.
C10_GpuUsesSelectedHost ==
    \A i \in 1..Len(compiled) :
        IF IsCu(compiled[i].src)
        THEN /\ compiled[i].postargs[7] = "--compiler-bindir"
             /\ compiled[i].postargs[8] = SelectedHostCompiler
             /\ Len(compiled[i].postargs) = 8
        ELSE compiled[i].postargs = <<"-g">>

\* A ".cu" file was compiled in a build whose host compiler came from CC.
C10_Witness ==
    /\ IsSet("CC")
    /\ \E i \in 1..Len(compiled) : IsCu(compiled[i].src) /\ compiled[i].ok

=============================================================================
